---- MODULE Spec2Model ----
(***************************************************************************)
(* A model of the estimation core of the Reliant Windows ERP/CRM           *)
(* prototype: price_predictor.py (artifact acquisition, cache, prediction),*)
(* summary_generator.py (pipeline acquisition, learned path, fallback) and *)
(* customer_segmentation.py (feature frame, labelling, ordering).          *)
(*                                                                         *)
(* Spec      one process, every call a whole handler (one action each).    *)
(* ConcSpec  several callers interleaved at the statements of the two lazy *)
(*           acquisitions (no lock is taken anywhere in the source).       *)
(*                                                                         *)
(* Money is counted in integers: raw model outputs in thousandths, sums    *)
(* rounded to hundredths (cents).  Text is a sequence of one-character     *)
(* strings, so that "contains" is substring search.                        *)
(***************************************************************************)
EXTENDS Integers, Sequences, FiniteSets, TLC

VARIABLES
    repo,         \* the repository (database tables) the core reads
    MODEL_PATH,   \* price_predictor.MODEL_PATH: None or a configured path
    files,        \* the file system: path -> content
    model_cache,  \* price_predictor._model_cache
    HF_TOKEN,     \* summary_generator.HF_TOKEN: a credential is configured
    PIPELINE,     \* summary_generator._PIPELINE
    LAST_ERR,     \* summary_generator._LAST_ERR
    last,         \* what the last completed call did and returned
    pc,           \* ConcSpec: each caller's position
    loc           \* ConcSpec: each caller's local variables

vars == <<repo, MODEL_PATH, files, model_cache, HF_TOKEN, PIPELINE, LAST_ERR,
          last, pc, loc>>

None == "None"

\* ------------------------------------------------------------------ bounds
MaxItems == 2        \* longest product_list passed to predict_quote_total
NumCallers == 2      \* concurrent callers in ConcSpec

\* ------------------------------------------------------------ generic helpers
RECURSIVE SumSeq(_)
SumSeq(s) == IF s = <<>> THEN 0 ELSE Head(s) + SumSeq(Tail(s))

Max(a, b) == IF a >= b THEN a ELSE b
Min(a, b) == IF a <= b THEN a ELSE b

SeqsUpTo(S, n) == UNION {[1..k -> S] : k \in 0..n}

\* f with every value computed once (TLC evaluates a function expression anew
\* at each application; @@ yields the tabulated function)
Table(f) == f @@ <<>>

\* ------------------------------------------------------------ the repository
(* Tables of models.py.  Only the columns the core reads are kept.         *)
Products ==
    { [id |-> 1, name |-> "Window A", category |-> "Casement", base_cost_per_sqft |-> 12],
      [id |-> 2, name |-> "Door B",   category |-> "Sliding",  base_cost_per_sqft |-> 20] }

\* quotation_item rows; product_id 9 references no product
ItemRow(pid, q, w, h, lt) ==
    [product_id |-> pid, quantity |-> q, width_ft |-> w, height_ft |-> h, line_total |-> lt]

\* the line-item tables the repository may hold
ItemTables ==
    { {},
      {ItemRow(9, 1, 2, 2, 100)},
      {ItemRow(1, 1, 2, 3, 150)},
      {ItemRow(1, 1, 2, 3, 150), ItemRow(2, 2, 3, 7, 900), ItemRow(9, 1, 1, 1, 10)} }

\* a quotation of a customer: total_amount in cents, and its timestamp as the
\* whole days it lies before now (negative: later than now); ts is missing
\* from the record when the column is NULL
Quote(total, age) == [total_amount |-> total, ts |-> age]
QuoteNoTs(total) == [total_amount |-> total]

Cust(id, name, qs) == [id |-> id, name |-> name, quotations |-> qs]

\* the customer tables the repository may hold, in primary-key order
CustomerTables ==
    { <<>>,
      <<Cust(1, "Alice", <<Quote(90000, 2), Quote(110000, 30)>>)>>,
      <<Cust(1, "Alice", <<Quote(90000, 2), Quote(110050, 30), Quote(100001, 9)>>),
        Cust(2, "Bob", <<Quote(20000, 40)>>),
        Cust(3, "Carol", <<>>)>>,
      <<Cust(1, "Alice", <<Quote(30000, 5)>>),
        Cust(2, "Bob", <<Quote(30000, 5), Quote(10000, 0 - 1)>>),
        Cust(3, "Carol", <<QuoteNoTs(5000), Quote(0 - 2500, 400)>>),
        Cust(4, "Dave", <<Quote(70000, 1), Quote(70000, 1)>>)>> }

Repos ==
    { [product |-> Products, quotation_item |-> it, customer |-> ct] :
      it \in ItemTables, ct \in CustomerTables }

\* a variant that keeps the line items whose product is missing (LEFT JOIN)
TrainingRowsLeftJoin(r) ==
    { [quantity |-> qi.quantity, width_ft |-> qi.width_ft, height_ft |-> qi.height_ft,
       line_total |-> qi.line_total, category |-> "NULL", base_cost_per_sqft |-> 0] :
      qi \in {x \in r.quotation_item : \A p \in r.product : p.id # x.product_id} }
    \cup
    { [quantity |-> qi.quantity, width_ft |-> qi.width_ft, height_ft |-> qi.height_ft,
       line_total |-> qi.line_total, category |-> p.category,
       base_cost_per_sqft |-> p.base_cost_per_sqft] :
      <<qi, p>> \in {x \in r.quotation_item \X r.product : x[1].product_id = x[2].id} }

\* SELECT ... FROM quotation_item AS qi JOIN product AS p ON qi.product_id = p.id
TrainingRows(r) ==
    { [quantity |-> qi.quantity, width_ft |-> qi.width_ft, height_ft |-> qi.height_ft,
       line_total |-> qi.line_total, category |-> p.category,
       base_cost_per_sqft |-> p.base_cost_per_sqft] :
      <<qi, p>> \in {x \in r.quotation_item \X r.product : x[1].product_id = x[2].id} }

\* ------------------------------------------------------------ the artifact
(* The fitted Pipeline: a one-hot encoding of the categories seen in       *)
(* training (handle_unknown='ignore': an unseen category encodes to zeros) *)
(* and a linear map.  The least-squares fit itself is library code and is  *)
(* not computed: Fit is a fixed function of the training rows whose values *)
(* stand for the fitted coefficients (in thousandths); one of them yields  *)
(* negative raw predictions for small lines.                               *)
CoefA == [intercept |-> 1005, area |-> 2500, quantity |-> 1000, cost |-> 100, cat |-> 500]
CoefB == [intercept |-> 0 - 5015, area |-> 1000, quantity |-> 2000, cost |-> 0, cat |-> 0 - 300]

\* model.fit(X, y)
Fit(rows) == IF Cardinality(rows) > 1 THEN CoefA ELSE CoefB

Artifact(c, rows) == [kind |-> "model", coef |-> c, categories |-> {r.category : r \in rows}, n_rows |-> Cardinality(rows)]

\* artifacts a file may hold when the process starts (written by an earlier process)
PriorArtifacts == { Artifact(CoefB, {[category |-> "Casement"], [category |-> "Bay"]}) }

NoFile == [kind |-> "NoFile"]      \* the path does not exist
Corrupt == [kind |-> "Corrupt"]    \* the path exists and does not unpickle
Partial == [kind |-> "Partial"]    \* opened "wb" (truncated), pickle.dump not finished
NoModel == [kind |-> "None"]       \* Python's None where a model is expected
NoPipeline == [kind |-> "None"]    \* Python's None where a pipeline is expected

LocalPath == "instance/price_model.pkl"
EnvPath == "env/price_model.pkl"
Paths == {LocalPath, EnvPath}

Exists(fs, p) == fs[p] # NoFile

\* pickle.load(open(p, "rb"))
Unpickle(fs, p) ==
    IF fs[p] \in {Corrupt, Partial}
    THEN [raised |-> TRUE, model |-> NoModel]
    ELSE [raised |-> FALSE, model |-> fs[p]]

\* ------------------------------------------------------------ train_and_save_model
(* train_and_save_model(db_uri=None, model_out_path): the new file system  *)
(* and what happened.                                                      *)
TrainAndSaveModel(r, fs, model_out_path) ==
    LET rows == TrainingRows(r)
        out_path == IF model_out_path # None THEN model_out_path ELSE LocalPath
    IN  IF rows = {}
        THEN [raised |-> TRUE, files |-> fs, events |-> <<>>]
        ELSE [raised |-> FALSE,
              files |-> [fs EXCEPT ![out_path] = Artifact(Fit(rows), rows)],
              events |-> <<[e |-> "train", path |-> out_path]>>]

\* ------------------------------------------------------------ _load_model
LoadFrom(fs, p, events) ==
    LET u == Unpickle(fs, p)
    IN  [raised |-> u.raised, model |-> u.model, files |-> fs,
         events |-> IF u.raised THEN events ELSE Append(events, [e |-> "load", path |-> p])]

\* a variant that looks at the default local path before the configured one
LoadModelLocalFirst(r, fs, mp) ==
    IF Exists(fs, LocalPath)
    THEN LoadFrom(fs, LocalPath, <<>>)
    ELSE IF mp # None /\ Exists(fs, mp)
    THEN LoadFrom(fs, mp, <<>>)
    ELSE LET t == TrainAndSaveModel(r, fs, None)
         IN  IF t.raised
             THEN [raised |-> TRUE, model |-> NoModel, files |-> t.files, events |-> t.events]
             ELSE LoadFrom(t.files, LocalPath, t.events)

\* a variant that retrains whatever is persisted
LoadModelRetrains(r, fs, mp) ==
    LET t == TrainAndSaveModel(r, fs, None)
    IN  IF t.raised
        THEN [raised |-> TRUE, model |-> NoModel, files |-> t.files, events |-> t.events]
        ELSE LoadFrom(t.files, LocalPath, t.events)

LoadModel(r, fs, mp) ==
    IF mp # None /\ Exists(fs, mp)
    THEN LoadFrom(fs, mp, <<>>)
    ELSE IF Exists(fs, LocalPath)
    THEN LoadFrom(fs, LocalPath, <<>>)
    ELSE LET t == TrainAndSaveModel(r, fs, None)
         IN  IF t.raised
             THEN [raised |-> TRUE, model |-> NoModel, files |-> t.files, events |-> t.events]
             ELSE LoadFrom(t.files, LocalPath, t.events)

\* ------------------------------------------------------------ predict_quote_total
(* A dict is a record whose domain is the keys present.  A numeric value  *)
(* is Num(n); Bad is a value float() and int() reject (such as "abc").     *)
Num(n) == [num |-> n]
Bad == [bad |-> "abc"]
IsNum(v) == "num" \in DOMAIN v

\* item.get(key, default)
Get(item, key, default) == IF key \in DOMAIN item THEN item[key] ELSE default

\* the items a caller may pass: a full one, one that relies on every default,
\* and one whose width does not parse
PriceItems ==
    { [category |-> "Casement", width_ft |-> Num(2), height_ft |-> Num(3), quantity |-> Num(1),
       base_cost_per_sqft |-> Num(12)],
      [height_ft |-> Num(4)],
      [category |-> "Bay", width_ft |-> Bad, height_ft |-> Num(2), quantity |-> Num(3)] }

\* float(...) and int(...) of lines 108-113 all succeed
ItemValid(item) ==
    /\ IsNum(Get(item, "width_ft", Num(0)))
    /\ IsNum(Get(item, "height_ft", Num(0)))
    /\ IsNum(Get(item, "quantity", Num(1)))
    /\ IsNum(Get(item, "base_cost_per_sqft", Num(0)))

\* one entry of rows
FeatureRow(item) ==
    [category |-> Get(item, "category", "Unknown"),
     area |-> Get(item, "width_ft", Num(0)).num * Get(item, "height_ft", Num(0)).num,
     quantity |-> Get(item, "quantity", Num(1)).num,
     base_cost_per_sqft |-> Get(item, "base_cost_per_sqft", Num(0)).num]

\* Pipeline.predict on one row, in thousandths
RawPrediction(m, row) ==
    m.coef.intercept
    + (IF row.category \in m.categories THEN m.coef.cat ELSE 0)
    + m.coef.area * row.area
    + m.coef.quantity * row.quantity
    + m.coef.cost * row.base_cost_per_sqft

\* np.maximum(line_total_preds, 0)
Clamp(p) == Max(p, 0)

\* round(total, 2): thousandths to hundredths, ties to even
Round2(t) ==
    LET q == t \div 10
        r == t % 10
    IN  IF r > 5 \/ (r = 5 /\ q % 2 = 1) THEN q + 1 ELSE q

\* a variant that clamps the sum instead of each line
QuoteTotalClampSum(m, product_list) ==
    Round2(Clamp(SumSeq([i \in 1..Len(product_list) |-> RawPrediction(m, FeatureRow(product_list[i]))])))

QuoteTotal(m, product_list) ==
    Round2(SumSeq([i \in 1..Len(product_list) |-> Clamp(RawPrediction(m, FeatureRow(product_list[i])))]))

\* a variant that swallows a failed acquisition and answers 0.0
PredictCallSwallows(r, fs, mp, cache, product_list) ==
    LET acq == IF cache = NoModel
               THEN LoadModel(r, fs, mp)
               ELSE [raised |-> FALSE, model |-> cache, files |-> fs, events |-> <<>>]
    IN  IF acq.raised \/ product_list = <<>>
        THEN [raised |-> FALSE, value |-> 0, cache |-> acq.model, files |-> acq.files, events |-> acq.events]
        ELSE IF \E i \in 1..Len(product_list) : ~ItemValid(product_list[i])
        THEN [raised |-> TRUE, value |-> 0, cache |-> acq.model, files |-> acq.files, events |-> acq.events]
        ELSE [raised |-> FALSE, value |-> QuoteTotal(acq.model, product_list),
              cache |-> acq.model, files |-> acq.files,
              events |-> Append(acq.events, [e |-> "predict", path |-> None])]

(* The whole call.  Acquisition comes first (lines 102-103), then the rows *)
(* are built (a malformed value raises there), then the empty check.       *)
PredictCall(r, fs, mp, cache, product_list) ==
    LET acq == IF cache = NoModel
               THEN LoadModel(r, fs, mp)
               ELSE [raised |-> FALSE, model |-> cache, files |-> fs, events |-> <<>>]
    IN  IF acq.raised
        THEN [raised |-> TRUE, value |-> 0, cache |-> cache, files |-> acq.files, events |-> acq.events]
        ELSE IF \E i \in 1..Len(product_list) : ~ItemValid(product_list[i])
        THEN [raised |-> TRUE, value |-> 0, cache |-> acq.model, files |-> acq.files, events |-> acq.events]
        ELSE IF product_list = <<>>
        THEN [raised |-> FALSE, value |-> 0, cache |-> acq.model, files |-> acq.files, events |-> acq.events]
        ELSE [raised |-> FALSE, value |-> QuoteTotal(acq.model, product_list),
              cache |-> acq.model, files |-> acq.files,
              events |-> Append(acq.events, [e |-> "predict", path |-> None])]

\* ------------------------------------------------------------ PriceSpec
Callers == 1..NumCallers

\* the other components' variables, untouched by the price estimator
PriceFrame == UNCHANGED <<HF_TOKEN, PIPELINE, LAST_ERR, pc, loc>>

PriceInit ==
    /\ repo \in {r \in Repos : r.customer = <<>>}
    /\ MODEL_PATH \in {None, EnvPath}
    /\ files \in [Paths -> {NoFile, Corrupt} \cup PriorArtifacts]
    /\ MODEL_PATH = None => files[EnvPath] = NoFile
    /\ model_cache = NoModel
    /\ HF_TOKEN = FALSE
    /\ PIPELINE = NoPipeline
    /\ LAST_ERR = None
    /\ last = [op |-> "start"]
    /\ pc = [t \in Callers |-> "idle"]
    /\ loc = [t \in Callers |-> [op |-> None]]

\* predict_quote_total(product_list), the whole call
PredictQuoteTotal ==
    \E product_list \in SeqsUpTo(PriceItems, MaxItems) :
        LET res == PredictCall(repo, files, MODEL_PATH, model_cache, product_list)
        IN  /\ model_cache' = res.cache
            /\ files' = res.files
            /\ last' = [op |-> "predict_quote_total", arg |-> product_list,
                        raised |-> res.raised, value |-> res.value, events |-> res.events]
            /\ UNCHANGED <<repo, MODEL_PATH>>
            /\ PriceFrame

\* train_and_save_model(model_out_path=...), called from outside the request path
\* (seed_database.py calls it with the defaults)
TrainAndSaveModelCall ==
    \E model_out_path \in {None, EnvPath} :
        LET res == TrainAndSaveModel(repo, files, model_out_path)
        IN  /\ files' = res.files
            /\ last' = [op |-> "train_and_save_model", arg |-> model_out_path,
                        raised |-> res.raised, value |-> 0, events |-> res.events]
            /\ UNCHANGED <<repo, MODEL_PATH, model_cache>>
            /\ PriceFrame

\* the operator deletes a persisted artifact
DeleteArtifact ==
    \E p \in Paths :
        /\ Exists(files, p)
        /\ files' = [files EXCEPT ![p] = NoFile]
        /\ last' = [op |-> "delete_artifact", arg |-> p, raised |-> FALSE, value |-> 0,
                    events |-> <<>>]
        /\ UNCHANGED <<repo, MODEL_PATH, model_cache>>
        /\ PriceFrame

\* the web layer commits line items (quotation_new)
RepoWrite ==
    \E r \in Repos :
        /\ r # repo
        /\ r.customer = repo.customer
        /\ repo' = r
        /\ last' = [op |-> "repo_write", arg |-> None, raised |-> FALSE, value |-> 0,
                    events |-> <<>>]
        /\ UNCHANGED <<MODEL_PATH, files, model_cache>>
        /\ PriceFrame

PriceNext ==
    \/ PredictQuoteTotal
    \/ TrainAndSaveModelCall
    \/ DeleteArtifact
    \/ RepoWrite

PriceSpec == PriceInit /\ [][PriceNext]_vars

\* ------------------------------------------------------------ claims about the price estimator
IsPredict(l) == l.op = "predict_quote_total"

HasEvent(events, kind) == \E k \in 1..Len(events) : events[k].e = kind

(* C1: predict_quote_total([]) returns 0.0 in every process state, and     *)
(* does so without loading an artifact, training or predicting.            *)
C1_EmptyListZeroWithoutModel ==
    (IsPredict(last) /\ last.arg = <<>>) =>
        (~last.raised /\ last.value = 0 /\ last.events = <<>>)

\* the raw per-line predictions of the call that has just returned
RawOf(i) == RawPrediction(model_cache, FeatureRow(last.arg[i]))

(* C2: whenever predict_quote_total returns a value it is >= 0, and it is  *)
(* the rounded sum of the positive raw line predictions alone: a negative  *)
(* raw prediction contributes nothing and takes nothing from its neighbours.*)
C2_TotalNonNegative ==
    (IsPredict(last) /\ ~last.raised) =>
        /\ last.value >= 0
        /\ last.value = Round2(SumSeq([i \in 1..Len(last.arg) |->
                                          IF RawOf(i) > 0 THEN RawOf(i) ELSE 0]))

\* a returned total over one line predicted negative and one predicted positive
C2_Witness ==
    /\ IsPredict(last) /\ ~last.raised
    /\ \E i, j \in 1..Len(last.arg) : RawOf(i) < 0 /\ RawOf(j) > 0
    /\ last.value > 0

(* C9: a predict_quote_total call made with an empty cache obtains the     *)
(* artifact by the ordered policy: the configured path if it is configured  *)
(* and exists, else the default local path if it exists, else it trains and *)
(* loads the file that training wrote.  Training never runs when either    *)
(* file exists.                                                            *)
C9_Step ==
    (model_cache = NoModel /\ IsPredict(last'))
    => LET ev == last'.events
           loaded(p) == /\ Len(ev) >= 1 /\ ev[1] = [e |-> "load", path |-> p]
                        /\ model_cache' = files[p]
                        /\ files' = files
           failed == last'.raised /\ ev = <<>> /\ model_cache' = NoModel /\ files' = files
       IN  IF MODEL_PATH # None /\ Exists(files, MODEL_PATH)
           THEN IF files[MODEL_PATH].kind = "model" THEN loaded(MODEL_PATH) ELSE failed
           ELSE IF Exists(files, LocalPath)
           THEN IF files[LocalPath].kind = "model" THEN loaded(LocalPath) ELSE failed
           ELSE IF TrainingRows(repo) = {}
           THEN failed
           ELSE /\ Len(ev) >= 2
                /\ ev[1] = [e |-> "train", path |-> LocalPath]
                /\ ev[2] = [e |-> "load", path |-> LocalPath]
                /\ files' = [files EXCEPT ![LocalPath] = Artifact(Fit(TrainingRows(repo)), TrainingRows(repo))]
                /\ model_cache' = files'[LocalPath]

C9_AcquisitionOrder == [][C9_Step]_vars

\* a first call that found the configured path missing, the local path missing,
\* trained, and loaded what it trained
C9_Witness ==
    /\ IsPredict(last)
    /\ MODEL_PATH # None
    /\ Len(last.events) >= 2
    /\ last.events[1].e = "train" /\ last.events[2].e = "load"
    /\ model_cache = files[LocalPath]
    /\ files[MODEL_PATH] = NoFile

(* C10: after train_and_save_model completes, or the artifact file is      *)
(* deleted, in a process whose cache is populated, the next                *)
(* predict_quote_total re-acquires the artifact instead of using the       *)
(* cached one.                                                             *)
C10_Step ==
    (/\ last.op \in {"train_and_save_model", "delete_artifact"}
     /\ ~last.raised
     /\ model_cache # NoModel
     /\ IsPredict(last') /\ ~last'.raised)
    => (HasEvent(last'.events, "predict") => HasEvent(last'.events, "load"))

C10_CacheInvalidated == [][C10_Step]_vars


\* the file the ordered policy would open is unreadable, or there is none and
\* nothing to train from
FailingAcquisition ==
    /\ model_cache = NoModel
    /\ IF MODEL_PATH # None /\ Exists(files, MODEL_PATH)
       THEN files[MODEL_PATH] = Corrupt
       ELSE IF Exists(files, LocalPath)
       THEN files[LocalPath] = Corrupt
       ELSE \A qi \in repo.quotation_item : \A p \in repo.product : p.id # qi.product_id

(* C11: a failure while loading or training inside predict_quote_total     *)
(* propagates (the call raises, no total, no prediction) and leaves the    *)
(* cache uninitialized; and a call made with the cache uninitialized that  *)
(* returns has performed acquisition (a load) itself.                      *)
C11_Step ==
    /\ (FailingAcquisition /\ IsPredict(last'))
       => (last'.raised /\ model_cache' = NoModel /\ ~HasEvent(last'.events, "predict"))
    /\ (model_cache = NoModel /\ IsPredict(last') /\ ~last'.raised)
       => (HasEvent(last'.events, "load") /\ model_cache' # NoModel)

C11_FailurePropagates == [][C11_Step]_vars

\* a call has just failed on a corrupt artifact file and left the cache empty
C11_Witness ==
    /\ IsPredict(last) /\ last.raised /\ last.arg # <<>>
    /\ model_cache = NoModel
    /\ \E p \in Paths : files[p] = Corrupt

\* the line items whose product exists
Referenced(r) == {qi \in r.quotation_item : \E p \in r.product : p.id = qi.product_id}

(* C12: train_and_save_model raises whenever no line item references an    *)
(* existing product, and then leaves every file as it was; when it does    *)
(* train, the artifact is fitted from the referenced line items alone.     *)
C12_Step ==
    (last'.op = "train_and_save_model")
    => LET out_path == IF last'.arg # None THEN last'.arg ELSE LocalPath
       IN  /\ Referenced(repo) = {} => (last'.raised /\ files' = files)
           /\ ~last'.raised =>
                 /\ files'[out_path].kind = "model"
                 /\ files'[out_path].n_rows = Cardinality(Referenced(repo))
                 /\ files'[out_path].categories \subseteq {p.category : p \in repo.product}

C12_TrainingDataUnavailable == [][C12_Step]_vars

\* training has just failed on a repository whose only line item is dangling,
\* with an artifact already persisted
C12_Witness ==
    /\ last.op = "train_and_save_model" /\ last.raised
    /\ repo.quotation_item # {} /\ Referenced(repo) = {}
    /\ \E p \in Paths : files[p].kind = "model"

\* ------------------------------------------------------------ customer_segmentation.py
\* s sorted stably on key, ascending: key[i] is the pair of integer sort keys of s[i]
SortStable(s, key) ==
    LET n == Len(s)
        Before(i, j) == \/ key[i][1] < key[j][1]
                        \/ (key[i][1] = key[j][1] /\ key[i][2] < key[j][2])
        first(i, j) == Before(i, j) \/ (~Before(j, i) /\ i < j)
        place == Table([i \in 1..n |-> 1 + Cardinality({j \in 1..n : first(j, i)})])
    IN  Table([p \in 1..n |-> s[CHOOSE i \in 1..n : place[i] = p]])

\* round(a / n, 2) of an amount in cents: to the nearest cent, ties to even
RoundDiv(a, n) ==
    LET q == a \div n
        r == a - q * n
    IN  IF 2 * r > n \/ (2 * r = n /\ q % 2 = 1) THEN q + 1 ELSE q

Sentinel == 10000

\* key=lambda q: q.timestamp or now, reverse=True: most recent first
MostRecentFirst(qs) ==
    LET age == Table([i \in 1..Len(qs) |-> <<IF "ts" \in DOMAIN qs[i] THEN qs[i].ts ELSE 0, 0>>])
    IN  SortStable(qs, age)

\* one row of _build_feature_frame
FeatureRecord(c) ==
    LET qs == MostRecentFirst(c.quotations)
        totals == Table([i \in 1..Len(qs) |-> qs[i].total_amount])
    IN  [customer_id |-> c.id,
         customer_name |-> c.name,
         total_quotes |-> Len(qs),
         total_value |-> IF totals # <<>> THEN SumSeq(totals) ELSE 0,
         avg_value |-> IF totals # <<>> THEN RoundDiv(SumSeq(totals), Len(totals)) ELSE 0,
         days_since_last |-> IF qs # <<>> /\ "ts" \in DOMAIN qs[1] THEN qs[1].ts ELSE Sentinel]

FrameColumns ==
    <<"customer_id", "customer_name", "total_quotes", "total_value", "avg_value", "days_since_last">>

\* _build_feature_frame: a frame is its columns and its rows
BuildFeatureFrame(r) ==
    [columns |-> FrameColumns,
     rows |-> Table([i \in 1..Len(r.customer) |-> FeatureRecord(r.customer[i])])]

BaseLabels == <<"High-Value Frequent", "Occasional", "Dormant/Low">>
GenericLabels == <<"Segment 1", "Segment 2", "Segment 3", "Segment 4", "Segment 5">>

\* a variant that hands the labels out from the lowest score upwards
LabelAtAscending(i) == IF i = 1 THEN "Dormant/Low" ELSE IF i = 3 THEN "High-Value Frequent"
                       ELSE IF i = 2 THEN "Occasional" ELSE GenericLabels[i]

\* labels[i], for the i-th cluster (from 1) in descending score order
LabelAt(i) == IF i <= Len(BaseLabels) THEN BaseLabels[i] ELSE GenericLabels[i]

\* the labels in the order of Python's str comparison
Alphabetical ==
    <<"Dormant/Low", "High-Value Frequent", "Occasional", "Segment 4", "Segment 5">>
StrRank(l) == CHOOSE i \in 1..Len(Alphabetical) : Alphabetical[i] = l

(* The score is a double: r1 * 0.6 + r2 * 0.3 + r3 * 0.1, evaluated left to *)
(* right.  For ranks up to 5 it is the double nearest to the exact value,   *)
(* or that double's neighbour below (ScoreBelow) or above (ScoreAbove), so  *)
(* three times the exact tenths plus the deviation orders the scores as     *)
(* the doubles are ordered.                                                 *)
ScoreBelow ==
    { <<1, 1, 1>>, <<1, 1, 2>>, <<1, 1, 4>>, <<1, 4, 2>>, <<1, 4, 3>>, <<1, 4, 4>>,
      <<2, 2, 2>>, <<2, 2, 3>>, <<2, 2, 4>>, <<2, 3, 1>>, <<2, 3, 3>>, <<2, 3, 4>>,
      <<2, 3, 5>>, <<3, 1, 1>>, <<3, 1, 3>>, <<3, 1, 4>>, <<3, 1, 5>>, <<3, 3, 4>>,
      <<3, 3, 5>>, <<3, 5, 3>>, <<3, 5, 4>>, <<4, 1, 4>>, <<4, 1, 5>>, <<4, 3, 3>>,
      <<4, 3, 4>>, <<4, 4, 1>>, <<4, 4, 3>>, <<4, 4, 4>>, <<5, 1, 3>>, <<5, 1, 4>> }
ScoreAbove ==
    { <<1, 5, 2>>, <<1, 5, 3>>, <<2, 5, 1>>, <<2, 5, 2>>, <<5, 2, 2>>, <<5, 2, 3>>,
      <<5, 4, 4>> }
Score(r1, r2, r3) ==
    3 * (6 * r1 + 3 * r2 + r3)
    + (IF <<r1, r2, r3>> \in ScoreAbove THEN 1 ELSE IF <<r1, r2, r3>> \in ScoreBelow THEN 0 - 1 ELSE 0)

(* _label_clusters: rows is the frame, cluster[i] the cluster id of row i.  *)
(* Means are compared as fractions; a rank is 1 + the number of smaller     *)
(* values (method="min").                                                   *)
LabelClusters(rows, cluster) ==
    LET n == Len(rows)
        ids == {cluster[i] : i \in 1..n}
        cols == {"total_value", "total_quotes", "days_since_last"}
        members == Table([g \in ids |-> {i \in 1..n : cluster[i] = g}])
        size == Table([g \in ids |-> Cardinality(members[g])])
        RECURSIVE sum(_, _)
        sum(S, col) == IF S = {} THEN 0
                       ELSE LET i == CHOOSE x \in S : TRUE IN rows[i][col] + sum(S \ {i}, col)
        total == Table([g \in ids |-> Table([col \in cols |-> sum(members[g], col)])])
        \* mean of g < mean of h
        less(g, h, col) == total[g][col] * size[h] < total[h][col] * size[g]
        rank == Table([g \in ids |->
                   Table([col \in cols |-> 1 + Cardinality({h \in ids : less(h, g, col)})])])
        \* the rank of -mean
        rankneg == Table([g \in ids |-> 1 + Cardinality({h \in ids : less(g, h, "days_since_last")})])
        score == Table([g \in ids |->
                   Score(rank[g]["total_value"], rank[g]["total_quotes"], rankneg[g])])
        \* position of g after sort_values("score", ascending=False) over the
        \* groups in cluster-id order
        pos == Table([g \in ids |->
                   1 + Cardinality({h \in ids : score[h] > score[g] \/ (score[h] = score[g] /\ h < g)})])
    IN  Table([i \in 1..n |-> LabelAt(pos[cluster[i]])])

ResultColumns ==
    <<"customer_id", "customer_name", "segment", "total_quotes", "total_value", "avg_value",
      "days_since_last">>

(* compute_customer_segments(session, k) from line 112 on: df is the frame   *)
(* of line 111, cluster is what KMeans.fit_predict returns (an assignment of *)
(* the rows to cluster ids below k); KMeans raises when there are fewer rows *)
(* than clusters.                                                            *)
ComputeSegments(df, k, cluster) ==
        IF df.rows = <<>>
        THEN [raised |-> FALSE, columns |-> df.columns, rows |-> df.rows]
        ELSE IF Len(df.rows) < k
        THEN [raised |-> TRUE, columns |-> <<>>, rows |-> <<>>]
        ELSE LET segment == LabelClusters(df.rows, cluster)
                 labelled == Table([i \in 1..Len(df.rows) |->
                                 [customer_id |-> df.rows[i].customer_id,
                                  customer_name |-> df.rows[i].customer_name,
                                  segment |-> segment[i],
                                  total_quotes |-> df.rows[i].total_quotes,
                                  total_value |-> df.rows[i].total_value,
                                  avg_value |-> df.rows[i].avg_value,
                                  days_since_last |-> df.rows[i].days_since_last]])
                 key == Table([i \in 1..Len(df.rows) |->
                                 <<StrRank(segment[i]), -labelled[i].total_value>>])
             IN  [raised |-> FALSE, columns |-> ResultColumns,
                  rows |-> SortStable(labelled, key)]

\* ------------------------------------------------------------ SegmentSpec
MaxK == 3     \* largest number of clusters asked for

SegmentInit ==
    /\ repo \in {r \in Repos : r.quotation_item = {}}
    /\ MODEL_PATH = None
    /\ files = [p \in Paths |-> NoFile]
    /\ model_cache = NoModel
    /\ HF_TOKEN = FALSE
    /\ PIPELINE = NoPipeline
    /\ LAST_ERR = None
    /\ last = [op |-> "start"]
    /\ pc = [t \in Callers |-> "idle"]
    /\ loc = [t \in Callers |-> [op |-> None]]

\* compute_customer_segments(session, k), the whole call
ComputeCustomerSegments ==
    \E df \in {BuildFeatureFrame(repo)}, k \in 2..MaxK :
        \E cluster \in [1..Len(repo.customer) -> 0..(k - 1)] :
            LET res == ComputeSegments(df, k, cluster)
            IN  /\ last' = [op |-> "compute_customer_segments", arg |-> k,
                            cluster |-> cluster, raised |-> res.raised, columns |-> res.columns, rows |-> res.rows]
                /\ UNCHANGED <<repo, MODEL_PATH, files, model_cache, HF_TOKEN, PIPELINE,
                               LAST_ERR, pc, loc>>

\* the web layer commits customers and quotations
CustomerWrite ==
    \E r \in Repos :
        /\ r.customer # repo.customer
        /\ r.quotation_item = repo.quotation_item
        /\ repo' = r
        /\ last' = [op |-> "repo_write", arg |-> None, raised |-> FALSE]
        /\ UNCHANGED <<MODEL_PATH, files, model_cache, HF_TOKEN, PIPELINE, LAST_ERR, pc, loc>>

SegmentNext ==
    \/ ComputeCustomerSegments
    \/ CustomerWrite

SegmentSpec == SegmentInit /\ [][SegmentNext]_vars

\* ------------------------------------------------------------ claims about the segmenter
IsSegments(l) == l.op = "compute_customer_segments"

(* C5: on a repository with zero customers compute_customer_segments       *)
(* returns, without error, an empty result with the columns of a non-empty *)
(* result: customer_id, customer_name, segment, total_quotes, total_value, *)
(* avg_value, days_since_last.                                             *)
C5_EmptyResultSameColumns ==
    (IsSegments(last) /\ repo.customer = <<>>) =>
        /\ ~last.raised
        /\ last.rows = <<>>
        /\ last.columns = <<"customer_id", "customer_name", "segment", "total_quotes",
                            "total_value", "avg_value", "days_since_last">>

\* the customer of the repository with the given primary key
CustomerById(id) == CHOOSE c \in {repo.customer[i] : i \in 1..Len(repo.customer)} : c.id = id

SegmentRank(l) ==
    CHOOSE i \in 1..5 :
        <<"High-Value Frequent", "Occasional", "Dormant/Low", "Segment 4", "Segment 5">>[i] = l

(* C14: the rows compute_customer_segments returns are ordered by (segment  *)
(* rank, total_value descending): "High-Value Frequent" first, then the     *)
(* next-ranked segment, and so on; within a segment total_value does not    *)
(* increase.                                                                *)
C14_OrderedBySegmentRank ==
    (IsSegments(last) /\ ~last.raised) =>
        \A i, j \in 1..Len(last.rows) :
            i < j =>
                \/ SegmentRank(last.rows[i].segment) < SegmentRank(last.rows[j].segment)
                \/ /\ last.rows[i].segment = last.rows[j].segment
                   /\ last.rows[i].total_value >= last.rows[j].total_value

\* the partition of the last call, over the rows of the feature frame
Frame == BuildFeatureFrame(repo).rows
ClusterIds == {last.cluster[i] : i \in 1..Len(Frame)}
Members(g) == {i \in 1..Len(Frame) : last.cluster[i] = g}
RECURSIVE ColSum(_, _)
ColSum(S, col) ==
    IF S = {} THEN 0 ELSE LET i == CHOOSE x \in S : TRUE IN Frame[i][col] + ColSum(S \ {i}, col)
\* mean of col over g < mean of col over h
MeanLess(g, h, col) ==
    ColSum(Members(g), col) * Cardinality(Members(h)) < ColSum(Members(h), col) * Cardinality(Members(g))
MinRank(g, col) == 1 + Cardinality({h \in ClusterIds : MeanLess(h, g, col)})
MinRankNeg(g, col) == 1 + Cardinality({h \in ClusterIds : MeanLess(g, h, col)})
\* ten times 0.6*rank(total_value) + 0.3*rank(total_quotes) + 0.1*rank(-days_since_last)
TenScore(g) ==
    6 * MinRank(g, "total_value") + 3 * MinRank(g, "total_quotes") + MinRankNeg(g, "days_since_last")
\* the label the last call gave to the customer of frame row i
SegmentOf(i) ==
    (CHOOSE row \in {last.rows[j] : j \in 1..Len(last.rows)} :
         row.customer_id = Frame[i].customer_id).segment
Dominates(g) ==
    \A h \in ClusterIds \ {g} :
        /\ MeanLess(h, g, "total_value")
        /\ MeanLess(h, g, "total_quotes")
        /\ MeanLess(g, h, "days_since_last")

(* C15: for any partition into clusters, labels are handed out in           *)
(* descending order of score = 0.6*rank(mean total_value) + 0.3*rank(mean   *)
(* total_quotes) + 0.1*rank(-mean days_since_last) (ascending min-ranks)    *)
(* from the fixed label list: rows get the same label exactly when they are *)
(* in the same cluster, the labels used are the first ones of the list, a   *)
(* cluster of higher score has a label earlier in the list, and a cluster   *)
(* strictly best on all three means is "High-Value Frequent".               *)
C15_LabelsByScore ==
    (IsSegments(last) /\ ~last.raised /\ last.rows # <<>>) =>
        LET n == Len(last.rows)
            score == Table([g \in ClusterIds |-> TenScore(g)])
            best == Table([g \in ClusterIds |-> Dominates(g)])
            seg == Table([i \in 1..n |-> SegmentOf(i)])
        IN  /\ \A i, j \in 1..n :
                   /\ (last.cluster[i] = last.cluster[j]) <=> (seg[i] = seg[j])
                   /\ score[last.cluster[i]] > score[last.cluster[j]]
                      => SegmentRank(seg[i]) < SegmentRank(seg[j])
            /\ {SegmentRank(seg[i]) : i \in 1..n} = 1..Cardinality(ClusterIds)
            /\ \A i \in 1..n : best[last.cluster[i]] => seg[i] = "High-Value Frequent"

\* three clusters, one of them strictly best on all three means
C15_Witness ==
    /\ IsSegments(last) /\ ~last.raised /\ last.rows # <<>>
    /\ Cardinality(ClusterIds) = 3
    /\ \E i \in 1..Len(Frame) :
           Dominates(last.cluster[i]) /\ SegmentOf(i) = "High-Value Frequent"

\* ------------------------------------------------------------ text
(* A str is a sequence of one-character strings.                           *)
Digit(d) == <<"0", "1", "2", "3", "4", "5", "6", "7", "8", "9">>[d + 1]

\* str(n) for n >= 0
RECURSIVE DigitsOf(_)
DigitsOf(n) == IF n < 10 THEN <<Digit(n)>> ELSE DigitsOf(n \div 10) \o <<Digit(n % 10)>>

\* the integer part under the "," format option: groups of three digits
RECURSIVE Grouped(_)
Grouped(n) ==
    IF n < 1000 THEN DigitsOf(n)
    ELSE Grouped(n \div 1000) \o <<",", Digit((n \div 100) % 10), Digit((n \div 10) % 10), Digit(n % 10)>>

Abs(n) == IF n < 0 THEN 0 - n ELSE n

\* f"{x:,.2f}" of an amount given in cents
FormatMoney(cents) ==
    (IF cents < 0 THEN <<"-">> ELSE <<>>)
    \o Grouped(Abs(cents) \div 100)
    \o <<".", Digit((Abs(cents) \div 10) % 10), Digit(Abs(cents) % 10)>>

\* f"{float(w):.2f}" of a whole number of feet
FormatFixed2(n) == DigitsOf(n) \o <<".", "0", "0">>

Whitespace == {" ", "\n", "\t"}

\* str.strip()
RECURSIVE LStrip(_)
LStrip(t) == IF t # <<>> /\ Head(t) \in Whitespace THEN LStrip(Tail(t)) ELSE t
RECURSIVE RStrip(_)
RStrip(t) == IF t # <<>> /\ t[Len(t)] \in Whitespace THEN RStrip(SubSeq(t, 1, Len(t) - 1)) ELSE t
Strip(t) == RStrip(LStrip(t))

\* sub in t
Contains(t, sub) ==
    \E i \in 1..(Len(t) - Len(sub) + 1) : SubSeq(t, i, i + Len(sub) - 1) = sub

\* sep.join(parts)
RECURSIVE Join(_, _)
Join(sep, parts) ==
    IF parts = <<>> THEN <<>>
    ELSE IF Len(parts) = 1 THEN parts[1]
    ELSE parts[1] \o sep \o Join(sep, Tail(parts))

\* "Customer: "
TxtCustomer ==
    <<"C", "u", "s", "t", "o", "m", "e", "r", ":", " ">>

\* "Total quoted amount: $"
TxtTotalQuoted ==
    <<"T", "o", "t", "a", "l", " ", "q", "u", "o", "t", "e", "d", " ", "a", "m", "o", "u",
      "n", "t", ":", " ", "$">>

\* "Items:"
TxtItems ==
    <<"I", "t", "e", "m", "s", ":">>

\* "Item"
TxtItem ==
    <<"I", "t", "e", "m">>

\* "General"
TxtGeneral ==
    <<"G", "e", "n", "e", "r", "a", "l">>

\* "), Qty: "
TxtQty ==
    <<")", ",", " ", "Q", "t", "y", ":", " ">>

\* ", Size: "
TxtSize ==
    <<",", " ", "S", "i", "z", "e", ":", " ">>

\* "N/A"
TxtNA ==
    <<"N", "/", "A">>

\* "ft x "
TxtFtX ==
    <<"f", "t", " ", "x", " ">>

\* "ft"
TxtFt ==
    <<"f", "t">>

\* "Scope includes supply and installation to Reliant Windows st ..."
TxtScope ==
    <<"S", "c", "o", "p", "e", " ", "i", "n", "c", "l", "u", "d", "e", "s", " ", "s", "u",
      "p", "p", "l", "y", " ", "a", "n", "d", " ", "i", "n", "s", "t", "a", "l", "l", "a",
      "t", "i", "o", "n", " ", "t", "o", " ", "R", "e", "l", "i", "a", "n", "t", " ", "W",
      "i", "n", "d", "o", "w", "s", " ", "s", "t", "a", "n", "d", "a", "r", "d", "s", ",",
      " ", "f", "i", "n", "a", "l", " ", "s", "i", "t", "e", " ", "m", "e", "a", "s", "u",
      "r", "e", "m", "e", "n", "t", "s", " ", "p", "r", "i", "o", "r", " ", "t", "o", " ",
      "f", "a", "b", "r", "i", "c", "a", "t", "i", "o", "n", ",", " ", "a", "n", "d", " ",
      "w", "a", "r", "r", "a", "n", "t", "y", "-", "b", "a", "c", "k", "e", "d", " ", "w",
      "o", "r", "k", "m", "a", "n", "s", "h", "i", "p", ".">>

\* "summarize: "
TxtSummarize ==
    <<"s", "u", "m", "m", "a", "r", "i", "z", "e", ":", " ">>

\* "product"
TxtProduct ==
    <<"p", "r", "o", "d", "u", "c", "t">>

\* ", "
TxtCommaSpace ==
    <<",", " ">>

\* "..."
TxtEllipsis ==
    <<".", ".", ".">>

\* "the specified products"
TxtSpecified ==
    <<"t", "h", "e", " ", "s", "p", "e", "c", "i", "f", "i", "e", "d", " ", "p", "r", "o",
      "d", "u", "c", "t", "s">>

\* "This quotation for "
TxtThisQuotation ==
    <<"T", "h", "i", "s", " ", "q", "u", "o", "t", "a", "t", "i", "o", "n", " ", "f", "o",
      "r", " ">>

\* " covers supply and installation of "
TxtCovers ==
    <<" ", "c", "o", "v", "e", "r", "s", " ", "s", "u", "p", "p", "l", "y", " ", "a", "n",
      "d", " ", "i", "n", "s", "t", "a", "l", "l", "a", "t", "i", "o", "n", " ", "o", "f",
      " ">>

\* " item type(s) ("
TxtItemTypes ==
    <<" ", "i", "t", "e", "m", " ", "t", "y", "p", "e", "(", "s", ")", " ", "(">>

\* ") with a total value of $"
TxtWithTotal ==
    <<")", " ", "w", "i", "t", "h", " ", "a", " ", "t", "o", "t", "a", "l", " ", "v", "a",
      "l", "u", "e", " ", "o", "f", " ", "$">>

\* ". The scope includes site verification, fabrication to final ..."
TxtTail ==
    <<".", " ", "T", "h", "e", " ", "s", "c", "o", "p", "e", " ", "i", "n", "c", "l", "u",
      "d", "e", "s", " ", "s", "i", "t", "e", " ", "v", "e", "r", "i", "f", "i", "c", "a",
      "t", "i", "o", "n", ",", " ", "f", "a", "b", "r", "i", "c", "a", "t", "i", "o", "n",
      " ", "t", "o", " ", "f", "i", "n", "a", "l", " ", "m", "e", "a", "s", "u", "r", "e",
      "m", "e", "n", "t", "s", ",", " ", "a", "n", "d", " ", "i", "n", "s", "t", "a", "l",
      "l", "a", "t", "i", "o", "n", " ", "a", "l", "i", "g", "n", "e", "d", " ", "w", "i",
      "t", "h", " ", "R", "e", "l", "i", "a", "n", "t", " ", "W", "i", "n", "d", "o", "w",
      "s", " ", "s", "t", "a", "n", "d", "a", "r", "d", "s", ".">>

\* "Acme"
TxtAcme ==
    <<"A", "c", "m", "e">>

\* "Bright Homes"
TxtBrightHomes ==
    <<"B", "r", "i", "g", "h", "t", " ", "H", "o", "m", "e", "s">>

\* "Window A"
TxtWindowA ==
    <<"W", "i", "n", "d", "o", "w", " ", "A">>

\* "Door B"
TxtDoorB ==
    <<"D", "o", "o", "r", " ", "B">>

\* "Casement"
TxtCasement ==
    <<"C", "a", "s", "e", "m", "e", "n", "t">>

\* "Sliding"
TxtSliding ==
    <<"S", "l", "i", "d", "i", "n", "g">>

\* "  "
TxtBlank ==
    <<" ", " ">>

\* " Quote for Acme: windows. \n"
TxtModelSummary ==
    <<" ", "Q", "u", "o", "t", "e", " ", "f", "o", "r", " ", "A", "c", "m", "e", ":", " ",
      "w", "i", "n", "d", "o", "w", "s", ".", " ", "\n">>

\* "2 item type(s)"
Txt2ItemTypes ==
    <<"2", " ", "i", "t", "e", "m", " ", "t", "y", "p", "e", "(", "s", ")">>

\* "1 item type(s)"
Txt1ItemTypes ==
    <<"1", " ", "i", "t", "e", "m", " ", "t", "y", "p", "e", "(", "s", ")">>

\* "$500.00"
TxtD50000 ==
    <<"$", "5", "0", "0", ".", "0", "0">>


\* ------------------------------------------------------------ _load_pipeline
(* anon_ok and token_ok say whether pipeline(...) succeeds on the anonymous *)
(* and on the credential attempt (the hub, the network and the local cache  *)
(* decide).  by names the caller that built the pipeline object.            *)
PipelineObj(by) == [kind |-> "pipeline", by |-> by]

\* a variant that goes on to the credential whatever the anonymous attempt gave
LoadPipelineBothAttempts(P, E, tok, anon_ok, token_ok, by) ==
    IF P # NoPipeline
    THEN [pipeline |-> P, err |-> E, events |-> <<>>]
    ELSE IF tok /\ token_ok
    THEN [pipeline |-> PipelineObj(by), err |-> None, events |-> <<"anon", "token">>]
    ELSE IF anon_ok
    THEN [pipeline |-> PipelineObj(by), err |-> None, events |-> <<"anon">>]
    ELSE IF tok
    THEN [pipeline |-> NoPipeline, err |-> "Token load failed", events |-> <<"anon", "token">>]
    ELSE [pipeline |-> NoPipeline, err |-> "Anonymous load failed", events |-> <<"anon">>]

LoadPipeline(P, E, tok, anon_ok, token_ok, by) ==
    IF P # NoPipeline
    THEN [pipeline |-> P, err |-> E, events |-> <<>>]
    ELSE IF anon_ok
    THEN [pipeline |-> PipelineObj(by), err |-> None, events |-> <<"anon">>]
    ELSE IF tok /\ token_ok
    THEN [pipeline |-> PipelineObj(by), err |-> None, events |-> <<"anon", "token">>]
    ELSE IF tok
    THEN [pipeline |-> NoPipeline, err |-> "Token load failed", events |-> <<"anon", "token">>]
    ELSE [pipeline |-> NoPipeline, err |-> "Anonymous load failed", events |-> <<"anon">>]

\* ------------------------------------------------------------ _build_source_text
\* p.get(key) or default, for a str value
GetOr(p, key, default) == IF key \in DOMAIN p /\ p[key] # <<>> THEN p[key] ELSE default

\* p.get("quantity") or 1
QtyOr1(p) == IF "quantity" \in DOMAIN p /\ p.quantity.num # 0 THEN p.quantity.num ELSE 1

Dims(p) ==
    IF "width_ft" \in DOMAIN p /\ "height_ft" \in DOMAIN p
       /\ IsNum(p.width_ft) /\ IsNum(p.height_ft)
    THEN FormatFixed2(p.width_ft.num) \o TxtFtX \o FormatFixed2(p.height_ft.num) \o TxtFt
    ELSE TxtNA

ItemLine(i, p) ==
    <<"-", " ">> \o DigitsOf(i) \o <<".", " ">> \o GetOr(p, "name", TxtItem)
    \o <<" ", "(">> \o GetOr(p, "category", TxtGeneral) \o TxtQty \o DigitsOf(QtyOr1(p))
    \o TxtSize \o Dims(p)

BuildSourceText(customer_name, product_list, total_amount) ==
    Join(<<" ">>,
         <<TxtCustomer \o customer_name \o <<".">>,
           TxtTotalQuoted \o FormatMoney(total_amount.num) \o <<".">>,
           TxtItems>>
         \o [i \in 1..Len(product_list) |-> ItemLine(i, product_list[i])]
         \o <<TxtScope>>)

\* ------------------------------------------------------------ _summarize
(* outcome is what nlp(text, **args) does: it raises, returns no outputs,  *)
(* or returns one output with the given summary_text.                      *)
NlpRaises == [kind |-> "raises"]
NlpNoOutputs == [kind |-> "outputs", out |-> <<>>]
NlpText(t) == [kind |-> "outputs", out |-> <<[summary_text |-> t]>>]

Summarize(text, P, E, tok, anon_ok, token_ok, outcome, by) ==
    LET lp == LoadPipeline(P, E, tok, anon_ok, token_ok, by)
    IN  IF lp.pipeline = NoPipeline
        THEN [raised |-> TRUE, value |-> <<>>, pipeline |-> lp.pipeline, err |-> lp.err,
              events |-> lp.events]
        ELSE IF outcome.kind = "raises" \/ outcome.out = <<>>
        THEN [raised |-> TRUE, value |-> <<>>, pipeline |-> lp.pipeline, err |-> lp.err,
              events |-> Append(lp.events, "invoke")]
        ELSE [raised |-> FALSE, value |-> Strip(outcome.out[1].summary_text),
              pipeline |-> lp.pipeline, err |-> lp.err, events |-> Append(lp.events, "invoke")]

\* ------------------------------------------------------------ _fallback_summary
\* names, in first-occurrence order without duplicates
RECURSIVE DistinctNames(_, _)
DistinctNames(product_list, names) ==
    IF product_list = <<>> THEN names
    ELSE LET n == GetOr(Head(product_list), "name", TxtProduct)
         IN  DistinctNames(Tail(product_list),
                           IF \E k \in 1..Len(names) : names[k] = n THEN names ELSE Append(names, n))

\* a variant that puts the ellipsis after six names already
NameStrEllipsisAtSix(names) ==
    IF names # <<>>
    THEN Join(TxtCommaSpace, SubSeq(names, 1, Min(6, Len(names))))
         \o (IF Len(names) >= 6 THEN TxtEllipsis ELSE <<>>)
    ELSE TxtSpecified

NameStr(names) ==
    IF names # <<>>
    THEN Join(TxtCommaSpace, SubSeq(names, 1, Min(6, Len(names))))
         \o (IF Len(names) > 6 THEN TxtEllipsis ELSE <<>>)
    ELSE TxtSpecified

\* a variant that counts the distinct names instead of the entries
ItemTypeCountDistinct(product_list) == Len(DistinctNames(product_list, <<>>))

\* {len(product_list)}
ItemTypeCount(product_list) == Len(product_list)

FallbackSummary(customer_name, product_list, total_amount) ==
    TxtThisQuotation \o customer_name \o TxtCovers
    \o DigitsOf(ItemTypeCount(product_list)) \o TxtItemTypes
    \o NameStr(DistinctNames(product_list, <<>>))
    \o TxtWithTotal \o FormatMoney(total_amount.num) \o TxtTail

\* ------------------------------------------------------------ generate_quote_summary
(* A call's arguments.  total_amount is Num(cents), or Bad for a value the *)
(* format specification rejects (not a well-formed input).                 *)
SummaryInput(c, items, total) == [customer_name |-> c, product_list |-> items, total_amount |-> total]

WindowA2 == [name |-> TxtWindowA, category |-> TxtCasement, quantity |-> Num(2)]
DoorB == [name |-> TxtDoorB, category |-> TxtSliding, quantity |-> Num(1),
          width_ft |-> Num(3), height_ft |-> Num(7)]

SummaryInputs ==
    { SummaryInput(TxtAcme, <<WindowA2>>, Num(50000)),
      SummaryInput(TxtAcme, <<>>, Num(0)),
      SummaryInput(TxtAcme, <<WindowA2, WindowA2>>, Num(123456789)),
      SummaryInput(TxtAcme, <<DoorB, [quantity |-> Num(0), width_ft |-> Bad, height_ft |-> Num(2)]>>, Num(99)),
      SummaryInput(TxtBrightHomes, <<DoorB, WindowA2, DoorB>>, Num(250050)),
      SummaryInput(TxtBrightHomes, <<[category |-> TxtSliding, width_ft |-> Num(4)]>>, Num(100000)),
      SummaryInput(TxtAcme, <<WindowA2>>, Bad) }

WellFormed(inp) == IsNum(inp.total_amount)

NlpOutcomes == {NlpRaises, NlpNoOutputs, NlpText(<<>>), NlpText(TxtBlank), NlpText(TxtModelSummary)}

GenerateCall(inp, P, E, tok, anon_ok, token_ok, outcome, by) ==
    IF ~IsNum(inp.total_amount)
    THEN \* the format of line 84 raises, outside the try
         [raised |-> TRUE, value |-> <<>>, path |-> "none", source |-> <<>>,
          pipeline |-> P, err |-> E, events |-> <<>>]
    ELSE LET src == BuildSourceText(inp.customer_name, inp.product_list, inp.total_amount)
             s == Summarize(src, P, E, tok, anon_ok, token_ok, outcome, by)
         IN  IF ~s.raised
             THEN [raised |-> FALSE, value |-> s.value, path |-> "model", source |-> src,
                   pipeline |-> s.pipeline, err |-> s.err, events |-> s.events]
             ELSE [raised |-> FALSE,
                   value |-> FallbackSummary(inp.customer_name, inp.product_list, inp.total_amount),
                   path |-> "fallback", source |-> src,
                   pipeline |-> s.pipeline, err |-> s.err, events |-> s.events]

\* ------------------------------------------------------------ SummarySpec
SummaryInit ==
    /\ repo \in {r \in Repos : r.quotation_item = {} /\ r.customer = <<>>}
    /\ MODEL_PATH = None
    /\ files = [p \in Paths |-> NoFile]
    /\ model_cache = NoModel
    /\ HF_TOKEN \in BOOLEAN
    /\ PIPELINE = NoPipeline
    /\ LAST_ERR = None
    /\ last = [op |-> "start"]
    /\ pc = [t \in Callers |-> "idle"]
    /\ loc = [t \in Callers |-> [op |-> None]]

\* generate_quote_summary(customer_name, product_list, total_amount), the whole call
GenerateQuoteSummary ==
    \E inp \in SummaryInputs, anon_ok \in BOOLEAN, token_ok \in BOOLEAN, outcome \in NlpOutcomes :
        LET res == GenerateCall(inp, PIPELINE, LAST_ERR, HF_TOKEN, anon_ok, token_ok, outcome, 0)
        IN  /\ PIPELINE' = res.pipeline
            /\ LAST_ERR' = res.err
            /\ last' = [op |-> "generate_quote_summary", arg |-> inp, raised |-> res.raised,
                        value |-> res.value, path |-> res.path, source |-> res.source,
                        events |-> res.events,
                        \* how each acquisition attempt that was made ended
                        outcomes |-> Table([i \in 1..Len(res.events) |->
                                        IF res.events[i] = "anon" THEN anon_ok
                                        ELSE IF res.events[i] = "token" THEN token_ok
                                        ELSE TRUE])]
            /\ UNCHANGED <<repo, MODEL_PATH, files, model_cache, HF_TOKEN, pc, loc>>

SummaryNext ==
    \/ GenerateQuoteSummary

SummarySpec == SummaryInit /\ [][SummaryNext]_vars


\* ------------------------------------------------------------ FallbackSpec
(* generate_quote_summary over item lists with up to eight distinct names, *)
(* repeated names, and items without a name.                               *)
Named(n) == [name |-> <<n>>, quantity |-> Num(1)]
Nameless == [category |-> TxtSliding, quantity |-> Num(2)]
EmptyName == [name |-> <<>>, category |-> TxtCasement]

NameLists ==
    { <<>>,
      <<Nameless>>,
      <<EmptyName, Nameless>>,
      <<Named("A"), Nameless, Named("B")>>,
      <<Named("A"), Named("B"), Named("A"), Named("C")>>,
      <<Named("B"), Named("A"), Named("B")>>,
      <<Named("A"), Named("B"), Named("C"), Named("D"), Named("E"), Named("F")>>,
      <<Named("A"), Named("B"), Named("C"), Named("A"), Named("D"), Named("E"), Named("F")>>,
      <<Named("A"), Named("B"), Named("C"), Named("D"), Named("E"), Named("F"), Named("G")>>,
      <<Named("H"), Named("G"), Named("H"), Named("F"), Named("E"), Named("D"), Named("C"),
        Named("B"), Named("A")>>,
      <<Named("A"), Named("B"), Named("C"), Named("D"), Named("E"), Named("F"), Nameless>> }

NameInputs ==
    { SummaryInput(c, items, Num(50000)) : c \in {TxtAcme, TxtBrightHomes}, items \in NameLists }

FallbackInit ==
    /\ repo \in {r \in Repos : r.quotation_item = {} /\ r.customer = <<>>}
    /\ MODEL_PATH = None
    /\ files = [p \in Paths |-> NoFile]
    /\ model_cache = NoModel
    /\ HF_TOKEN \in BOOLEAN
    /\ PIPELINE = NoPipeline
    /\ LAST_ERR = None
    /\ last = [op |-> "start"]
    /\ pc = [t \in Callers |-> "idle"]
    /\ loc = [t \in Callers |-> [op |-> None]]

\* generate_quote_summary(customer_name, product_list, total_amount), the whole call
GenerateQuoteSummaryNames ==
    \E inp \in NameInputs, anon_ok \in BOOLEAN, token_ok \in BOOLEAN,
       outcome \in {NlpRaises, NlpText(TxtModelSummary)} :
        LET res == GenerateCall(inp, PIPELINE, LAST_ERR, HF_TOKEN, anon_ok, token_ok, outcome, 0)
        IN  /\ PIPELINE' = res.pipeline
            /\ LAST_ERR' = res.err
            /\ last' = [op |-> "generate_quote_summary", arg |-> inp, raised |-> res.raised,
                        value |-> res.value, path |-> res.path, events |-> res.events]
            /\ UNCHANGED <<repo, MODEL_PATH, files, model_cache, HF_TOKEN, pc, loc>>

FallbackNext ==
    \/ GenerateQuoteSummaryNames

FallbackSpec == FallbackInit /\ [][FallbackNext]_vars

\* ------------------------------------------------------------ app.py
(* The web layer.  repo holds the user and quotation tables, loc[t] is the *)
(* session of client t (the keys login sets; <<>> is the empty session),   *)
(* and last is the latest request and its response.                        *)
Users ==
    { [id |-> 1, email |-> "manager@reliant.com", password |-> "manager123", role |-> "manager",
       username |-> "Manager"],
      [id |-> 2, email |-> "sales@reliant.com", password |-> "sales123", role |-> "sales",
       username |-> "Sales Rep"],
      [id |-> 3, email |-> "sales2@reliant.com", password |-> "sales123", role |-> "sales",
       username |-> "Sales Rep 2"] }

\* Quotation.ai_summary: NULL, or a text
NoSummary == [kind |-> "None"]
SummaryText(t) == [kind |-> "text", text |-> t]

\* Quotation rows by id: the owner, what the summary is built from, and ai_summary
Quotations ==
    (1 :> [user_id |-> 2, customer_name |-> TxtAcme, items |-> <<WindowA2>>,
           total_amount |-> Num(50000), ai_summary |-> NoSummary])
    @@ (2 :> [user_id |-> 3, customer_name |-> TxtBrightHomes, items |-> <<DoorB>>,
              total_amount |-> Num(99), ai_summary |-> SummaryText(TxtModelSummary)])

NoSession == <<>>

\* request.form.get("email","").strip().lower()
NormaliseEmail(email) ==
    IF email = " Sales@Reliant.com " THEN "sales@reliant.com" ELSE email

EmailInputs == {"manager@reliant.com", " Sales@Reliant.com ", "sales2@reliant.com", "nobody@reliant.com"}
PasswordInputs == {"manager123", "sales123"}

\* 'user_id' not in session
NotLoggedIn(session) == "user_id" \notin DOMAIN session

\* a variant of the permission test that lets every logged-in session through
DeniedNobody(session, q) == FALSE

\* session.get('role') != 'manager' and q.user_id != session.get('user_id')
Denied(session, q) ==
    /\ ("role" \notin DOMAIN session \/ session.role # "manager")
    /\ ("user_id" \notin DOMAIN session \/ q.user_id # session.user_id)

WebInit ==
    /\ repo = [user |-> Users, quotation |-> Quotations]
    /\ MODEL_PATH = None
    /\ files = [p \in Paths |-> NoFile]
    /\ model_cache = NoModel
    /\ HF_TOKEN = FALSE
    /\ PIPELINE = NoPipeline
    /\ LAST_ERR = None
    /\ last = [op |-> "start"]
    /\ pc = [t \in Callers |-> "idle"]
    /\ loc = [t \in Callers |-> NoSession]

WebUnchanged == <<MODEL_PATH, files, model_cache, HF_TOKEN, pc>>

\* a response, and a response to a request that names a quotation
Response(op, t, status) == [op |-> op, client |-> t, status |-> status]
ResponseFor(op, t, id, status) == [op |-> op, client |-> t, id |-> id, status |-> status]

\* login()
login(t) ==
    /\ \/ /\ last' = Response("login", t, "login.html")
          /\ UNCHANGED loc
       \/ \E email \in EmailInputs, password \in PasswordInputs :
            LET found == {u \in repo.user : u.email = NormaliseEmail(email)}
            IN  IF \E user \in found : user.password = password
                THEN LET user == CHOOSE u \in found : TRUE
                     IN  /\ loc' = [loc EXCEPT ![t] =
                                      [user_id |-> user.id, role |-> user.role,
                                       username |-> user.username]]
                         /\ last' = Response("login", t, "redirect index")
                ELSE /\ last' = Response("login", t, "login.html")
                     /\ UNCHANGED loc
    /\ UNCHANGED <<repo, PIPELINE, LAST_ERR>>
    /\ UNCHANGED WebUnchanged

\* logout()
logout(t) ==
    /\ loc' = [loc EXCEPT ![t] = NoSession]
    /\ last' = Response("logout", t, "redirect login")
    /\ UNCHANGED <<repo, PIPELINE, LAST_ERR>>
    /\ UNCHANGED WebUnchanged

\* quotation_detail(id), behind login_required
quotation_detail(t) ==
    /\ \E id \in {1, 2, 9} :
         last' = ResponseFor("quotation_detail", t, id,
                    IF NotLoggedIn(loc[t]) THEN "redirect login"
                    ELSE IF id \notin DOMAIN repo.quotation THEN "404"
                    ELSE IF Denied(loc[t], repo.quotation[id]) THEN "redirect quotations"
                    ELSE "quotation_detail.html")
    /\ UNCHANGED <<repo, loc, PIPELINE, LAST_ERR>>
    /\ UNCHANGED WebUnchanged

\* api_generate_summary(), behind login_required
api_generate_summary(t) ==
    /\ \E quotation_id \in {Num(1), Num(2), Num(9), Bad} :
         LET qid == quotation_id.num
         IN
         IF NotLoggedIn(loc[t])
         THEN /\ last' = Response("api_generate_summary", t, "redirect login")
              /\ UNCHANGED <<repo, PIPELINE, LAST_ERR>>
         ELSE IF ~IsNum(quotation_id)
         THEN /\ last' = Response("api_generate_summary", t, "400")
              /\ UNCHANGED <<repo, PIPELINE, LAST_ERR>>
         ELSE IF qid \notin DOMAIN repo.quotation
         THEN /\ last' = ResponseFor("api_generate_summary", t, qid, "404")
              /\ UNCHANGED <<repo, PIPELINE, LAST_ERR>>
         ELSE IF Denied(loc[t], repo.quotation[qid])
         THEN /\ last' = ResponseFor("api_generate_summary", t, qid, "403")
              /\ UNCHANGED <<repo, PIPELINE, LAST_ERR>>
         ELSE \E anon_ok \in BOOLEAN, outcome \in {NlpRaises, NlpText(TxtModelSummary)} :
                LET q == repo.quotation[qid]
                    res == GenerateCall(SummaryInput(q.customer_name, q.items, q.total_amount),
                                        PIPELINE, LAST_ERR, HF_TOKEN, anon_ok, FALSE, outcome, 0)
                IN  /\ PIPELINE' = res.pipeline
                    /\ LAST_ERR' = res.err
                    /\ IF res.raised
                       THEN /\ last' = ResponseFor("api_generate_summary", t, qid, "500")
                            /\ UNCHANGED repo
                       ELSE /\ last' = ResponseFor("api_generate_summary", t, qid, "200")
                            /\ repo' = [repo EXCEPT !.quotation[qid].ai_summary = SummaryText(res.value)]
    /\ UNCHANGED loc
    /\ UNCHANGED WebUnchanged

WebNext ==
    \E t \in Callers :
        \/ login(t)
        \/ logout(t)
        \/ quotation_detail(t)
        \/ api_generate_summary(t)

WebSpec == WebInit /\ [][WebNext]_vars

\* ------------------------------------------------------------ ConcSpec
(* Several callers (request threads) run predict_quote_total and            *)
(* generate_quote_summary at once.  Neither module takes a lock, so a step  *)
(* is one access to a global or to the file system, and the callers'       *)
(* steps interleave freely.  loc[t] holds caller t's local variables, and   *)
(* three marks of what its current call has done (trained, readPartial,    *)
(* attempted).                                                             *)
IdleLoc ==
    [op |-> None, arg |-> <<>>, path |-> None, rows |-> {}, model |-> NoModel,
     nlp |-> NoPipeline, trained |-> FALSE, readPartial |-> FALSE, attempted |-> FALSE,
     raised |-> FALSE, total |-> 0, text |-> <<>>]

\* what the concurrent callers pass
ConcPriceLists ==
    { <<>>,
      <<[category |-> "Casement", width_ft |-> Num(2), height_ft |-> Num(3), quantity |-> Num(1),
         base_cost_per_sqft |-> Num(12)]>> }
ConcSummaryInputs == { SummaryInput(TxtAcme, <<WindowA2>>, Num(50000)) }
ConcNlpOutcomes == { NlpRaises, NlpText(TxtModelSummary) }

ConcInit ==
    /\ repo \in {r \in Repos : r.customer = <<>>}
    /\ MODEL_PATH \in {None, EnvPath}
    /\ files \in [Paths -> {NoFile} \cup PriorArtifacts]
    /\ MODEL_PATH = None => files[EnvPath] = NoFile
    /\ model_cache = NoModel
    /\ HF_TOKEN \in BOOLEAN
    /\ PIPELINE = NoPipeline
    /\ LAST_ERR = None
    /\ last = [op |-> "start"]
    /\ pc = [t \in Callers |-> "idle"]
    /\ loc = [t \in Callers |-> IdleLoc]

Goto(t, label) == pc' = [pc EXCEPT ![t] = label]
Raise(t) == /\ pc' = [pc EXCEPT ![t] = "done"]
            /\ loc' = [loc EXCEPT ![t].raised = TRUE]

PriceGlobals == <<repo, MODEL_PATH, files, model_cache>>
SummaryGlobals == <<HF_TOKEN, PIPELINE, LAST_ERR>>

\* a caller enters predict_quote_total(product_list)
CallPredict(t) ==
    /\ pc[t] = "idle"
    /\ \E product_list \in ConcPriceLists :
           loc' = [loc EXCEPT ![t] = [IdleLoc EXCEPT !.op = "predict_quote_total", !.arg = product_list]]
    /\ Goto(t, "P_check")
    /\ UNCHANGED <<PriceGlobals, SummaryGlobals, last>>

\* line 102: if _model_cache is None
P_Check(t) ==
    /\ pc[t] = "P_check"
    /\ Goto(t, IF model_cache = NoModel THEN "L_env" ELSE "P_rows")
    /\ UNCHANGED <<PriceGlobals, SummaryGlobals, last, loc>>

\* line 75: if MODEL_PATH and MODEL_PATH.exists()
L_Env(t) ==
    /\ pc[t] = "L_env"
    /\ IF MODEL_PATH # None /\ Exists(files, MODEL_PATH)
       THEN Goto(t, "L_read") /\ loc' = [loc EXCEPT ![t].path = MODEL_PATH]
       ELSE Goto(t, "L_local") /\ UNCHANGED loc
    /\ UNCHANGED <<PriceGlobals, SummaryGlobals, last>>

\* line 80: if local_path.exists()
L_Local(t) ==
    /\ pc[t] = "L_local"
    /\ IF Exists(files, LocalPath)
       THEN Goto(t, "L_read") /\ loc' = [loc EXCEPT ![t].path = LocalPath]
       ELSE Goto(t, "T_query") /\ UNCHANGED loc
    /\ UNCHANGED <<PriceGlobals, SummaryGlobals, last>>

\* lines 30-42: the training query, and the error on no rows
T_Query(t) ==
    /\ pc[t] = "T_query"
    /\ IF TrainingRows(repo) = {}
       THEN Raise(t)
       ELSE Goto(t, "T_open") /\ loc' = [loc EXCEPT ![t].rows = TrainingRows(repo)]
    /\ UNCHANGED <<PriceGlobals, SummaryGlobals, last>>

\* lines 61-69: fit, then open(out_path, "wb"), which truncates the file
T_Open(t) ==
    /\ pc[t] = "T_open"
    /\ files' = [files EXCEPT ![LocalPath] = Partial]
    /\ loc' = [loc EXCEPT ![t].trained = TRUE]
    /\ Goto(t, "T_dump")
    /\ UNCHANGED <<repo, MODEL_PATH, model_cache, SummaryGlobals, last>>

\* line 70: pickle.dump(model, f) and the close of the file
T_Dump(t) ==
    /\ pc[t] = "T_dump"
    /\ files' = [files EXCEPT ![LocalPath] = Artifact(Fit(loc[t].rows), loc[t].rows)]
    /\ loc' = [loc EXCEPT ![t].path = LocalPath]
    /\ Goto(t, "L_read")
    /\ UNCHANGED <<repo, MODEL_PATH, model_cache, SummaryGlobals, last>>

\* lines 76-77, 81-82, 86-87: open(path, "rb") and pickle.load
L_Read(t) ==
    /\ pc[t] = "L_read"
    /\ LET u == Unpickle(files, loc[t].path)
       IN  IF u.raised
           THEN /\ pc' = [pc EXCEPT ![t] = "done"]
                /\ loc' = [loc EXCEPT ![t].raised = TRUE,
                                      ![t].readPartial = (files[loc[t].path] = Partial)]
           ELSE /\ Goto(t, "P_assign")
                /\ loc' = [loc EXCEPT ![t].model = u.model]
    /\ UNCHANGED <<PriceGlobals, SummaryGlobals, last>>

\* line 103: _model_cache = <what _load_model returned>
P_Assign(t) ==
    /\ pc[t] = "P_assign"
    /\ model_cache' = loc[t].model
    /\ Goto(t, "P_rows")
    /\ UNCHANGED <<repo, MODEL_PATH, files, SummaryGlobals, last, loc>>

\* lines 105-120: the rows, the empty check, and _model_cache.predict
P_Rows(t) ==
    /\ pc[t] = "P_rows"
    /\ LET res == PredictCall(repo, files, MODEL_PATH, model_cache, loc[t].arg)
       IN  loc' = [loc EXCEPT ![t].raised = res.raised, ![t].total = res.value]
    /\ Goto(t, "done")
    /\ UNCHANGED <<PriceGlobals, SummaryGlobals, last>>

\* a caller enters generate_quote_summary(...)
CallSummary(t) ==
    /\ pc[t] = "idle"
    /\ \E inp \in ConcSummaryInputs :
           loc' = [loc EXCEPT ![t] = [IdleLoc EXCEPT !.op = "generate_quote_summary", !.arg = inp]]
    /\ Goto(t, "S_check")
    /\ UNCHANGED <<PriceGlobals, SummaryGlobals, last>>

\* lines 53-54: if _PIPELINE is not None: return _PIPELINE
S_Check(t) ==
    /\ pc[t] = "S_check"
    /\ IF PIPELINE # NoPipeline
       THEN Goto(t, "S_use") /\ loc' = [loc EXCEPT ![t].nlp = PIPELINE]
       ELSE Goto(t, "S_anon") /\ UNCHANGED loc
    /\ UNCHANGED <<PriceGlobals, SummaryGlobals, last>>

\* lines 58 and 63: the anonymous attempt ends and _PIPELINE is assigned
S_Anon(t) ==
    /\ pc[t] = "S_anon"
    /\ \E anon_ok \in BOOLEAN :
           IF anon_ok
           THEN PIPELINE' = PipelineObj(t) /\ Goto(t, "S_ok")
           ELSE PIPELINE' = NoPipeline /\ Goto(t, "S_anon_failed")
    /\ loc' = [loc EXCEPT ![t].attempted = TRUE]
    /\ UNCHANGED <<PriceGlobals, HF_TOKEN, LAST_ERR, last>>

\* lines 60 and 71: _LAST_ERR = None
S_Ok(t) ==
    /\ pc[t] = "S_ok"
    /\ LAST_ERR' = None
    /\ Goto(t, "S_return")
    /\ UNCHANGED <<PriceGlobals, HF_TOKEN, PIPELINE, last, loc>>

\* lines 61 and 72: return _PIPELINE, a read of the global
S_Return(t) ==
    /\ pc[t] = "S_return"
    /\ loc' = [loc EXCEPT ![t].nlp = PIPELINE]
    /\ Goto(t, "S_use")
    /\ UNCHANGED <<PriceGlobals, SummaryGlobals, last>>

\* lines 64-67: _LAST_ERR is set, then if HF_TOKEN
S_AnonFailed(t) ==
    /\ pc[t] = "S_anon_failed"
    /\ LAST_ERR' = "Anonymous load failed"
    /\ Goto(t, IF HF_TOKEN THEN "S_token" ELSE "S_none")
    /\ UNCHANGED <<PriceGlobals, HF_TOKEN, PIPELINE, last, loc>>

\* lines 69 and 74: the credential attempt ends and _PIPELINE is assigned
S_Token(t) ==
    /\ pc[t] = "S_token"
    /\ \E token_ok \in BOOLEAN :
           IF token_ok
           THEN PIPELINE' = PipelineObj(t) /\ Goto(t, "S_ok")
           ELSE PIPELINE' = NoPipeline /\ Goto(t, "S_token_failed")
    /\ UNCHANGED <<PriceGlobals, HF_TOKEN, LAST_ERR, last, loc>>

\* line 75: _LAST_ERR = "Token load failed: ..."
S_TokenFailed(t) ==
    /\ pc[t] = "S_token_failed"
    /\ LAST_ERR' = "Token load failed"
    /\ Goto(t, "S_none")
    /\ UNCHANGED <<PriceGlobals, HF_TOKEN, PIPELINE, last, loc>>

\* line 79: return None
S_None(t) ==
    /\ pc[t] = "S_none"
    /\ loc' = [loc EXCEPT ![t].nlp = NoPipeline]
    /\ Goto(t, "S_use")
    /\ UNCHANGED <<PriceGlobals, SummaryGlobals, last>>

\* lines 118-137 and 155-161: the learned path with the pipeline obtained, or the fallback
S_Use(t) ==
    /\ pc[t] = "S_use"
    /\ \E outcome \in ConcNlpOutcomes :
           LET res == GenerateCall(loc[t].arg, loc[t].nlp, LAST_ERR, FALSE, FALSE, FALSE, outcome, t)
           IN  loc' = [loc EXCEPT ![t].raised = res.raised, ![t].text = res.value]
    /\ Goto(t, "done")
    /\ UNCHANGED <<PriceGlobals, SummaryGlobals, last>>

\* the call returns to its caller
Return(t) ==
    /\ pc[t] = "done"
    /\ pc' = [pc EXCEPT ![t] = "idle"]
    /\ loc' = [loc EXCEPT ![t] = IdleLoc]
    /\ UNCHANGED <<PriceGlobals, SummaryGlobals, last>>

ConcNext ==
    \E t \in Callers :
        \/ CallPredict(t)
        \/ P_Check(t)
        \/ L_Env(t)
        \/ L_Local(t)
        \/ T_Query(t)
        \/ T_Open(t)
        \/ T_Dump(t)
        \/ L_Read(t)
        \/ P_Assign(t)
        \/ P_Rows(t)
        \/ CallSummary(t)
        \/ S_Check(t)
        \/ S_Anon(t)
        \/ S_Ok(t)
        \/ S_Return(t)
        \/ S_AnonFailed(t)
        \/ S_Token(t)
        \/ S_TokenFailed(t)
        \/ S_None(t)
        \/ S_Use(t)
        \/ Return(t)

ConcSpec == ConcInit /\ [][ConcNext]_vars

\* ------------------------------------------------------------ claims about concurrent first use
AcquirePcs == {"S_anon", "S_ok", "S_return", "S_anon_failed", "S_token", "S_token_failed", "S_none"}

(* C6: with the cache empty and the artifact missing, concurrent callers of *)
(* predict_quote_total acquire atomically: at most one of them trains, no   *)
(* caller reads the artifact file while another is writing it, and no       *)
(* caller predicts with an uninitialized cache.                            *)
C6_AtomicArtifactAcquisition ==
    /\ Cardinality({t \in Callers : loc[t].trained}) <= 1
    /\ \A t \in Callers : ~loc[t].readPartial
    /\ \A t \in Callers : pc[t] = "P_rows" => model_cache # NoModel

(* C7: concurrent callers of generate_quote_summary acquire the capability  *)
(* atomically: at most one of them is inside the acquisition sequence at a  *)
(* time, and callers inside the learned-path decision at the same time hold *)
(* the same result of acquisition.                                         *)
C7_AtomicPipelineAcquisition ==
    /\ Cardinality({t \in Callers : pc[t] \in AcquirePcs}) <= 1
    /\ \A t, u \in Callers : (pc[t] = "S_use" /\ pc[u] = "S_use") => loc[t].nlp = loc[u].nlp

\* ------------------------------------------------------------ _dynamic_lengths
\* "t5-small"
TxtT5Small ==
    <<"t", "5", "-", "s", "m", "a", "l", "l">>

\* "google/flan-T5-base"
TxtFlanT5 ==
    <<"g", "o", "o", "g", "l", "e", "/", "f", "l", "a", "n", "-", "T", "5",
      "-", "b", "a", "s", "e">>

\* "facebook/bart-large-cnn"
TxtBart ==
    <<"f", "a", "c", "e", "b", "o", "o", "k", "/", "b", "a", "r", "t", "-",
      "l", "a", "r", "g", "e", "-", "c", "n", "n">>

\* str.lower(), on the letters
UpperCase ==
    <<"A", "B", "C", "D", "E", "F", "G", "H", "I", "J", "K", "L", "M",
      "N", "O", "P", "Q", "R", "S", "T", "U", "V", "W", "X", "Y", "Z">>
LowerCase ==
    <<"a", "b", "c", "d", "e", "f", "g", "h", "i", "j", "k", "l", "m",
      "n", "o", "p", "q", "r", "s", "t", "u", "v", "w", "x", "y", "z">>
Lower(t) ==
    [i \in 1..Len(t) |->
        IF \E k \in 1..26 : UpperCase[k] = t[i]
        THEN LowerCase[CHOOSE k \in 1..26 : UpperCase[k] = t[i]]
        ELSE t[i]]

\* _is_t5_family(name): "t5" in name.lower()
IsT5Family(name) == Contains(Lower(name), <<"t", "5">>)

\* len(text.split()): the maximal runs of non-whitespace characters
WordCount(t) ==
    Cardinality({i \in 1..Len(t) : t[i] \notin Whitespace /\ (i = 1 \/ t[i - 1] \in Whitespace)})

DefaultMaxLen == 140
DefaultMinLen == 60

(* _dynamic_lengths(text) under the configured MAX_LEN and MIN_LEN.         *)
(* int(wc * 0.8) and int(wc * 0.4) are the doubles' truncations, which for  *)
(* every word count below 100000 equal (4 * wc) \div 5 and (2 * wc) \div 5. *)
DynamicLengths(text, max_len, min_len) ==
    LET wc == Max(1, WordCount(text))
        dyn_max == Min(max_len, Max(48, (4 * wc) \div 5))
        dyn_min == Min(min_len, Max(24, (2 * wc) \div 5))
    IN  [dyn_min |-> IF dyn_min >= dyn_max THEN Max(16, dyn_max - 8) ELSE dyn_min,
         dyn_max |-> dyn_max]

\* lines 121-124 of _summarize: the prefix for a T5 model, then the lengths
SummarizeLengths(src, hf_model, max_len, min_len) ==
    DynamicLengths(IF IsT5Family(hf_model) THEN TxtSummarize \o src ELSE src, max_len, min_len)

\* ------------------------------------------------------------ LengthSpec
(* The decoding lengths _summarize asks for, over source descriptions of   *)
(* 25 to 72 words, model identifiers in and out of the T5 family, and      *)
(* configured SUMMARY_MAX_LEN and SUMMARY_MIN_LEN values.                  *)
LengthInputs ==
    { SummaryInput(TxtAcme, <<>>, Num(0)),
      SummaryInput(TxtAcme, <<WindowA2>>, Num(50000)),
      SummaryInput(TxtAcme, <<WindowA2, WindowA2, WindowA2, WindowA2>>, Num(200000)),
      SummaryInput(TxtBrightHomes, <<WindowA2, DoorB, WindowA2, WindowA2, WindowA2>>, Num(250050)) }
HfModels == {TxtT5Small, TxtFlanT5, TxtBart}
MaxLens == {DefaultMaxLen, 50, 16, 10}
MinLens == {DefaultMinLen, 26, 8}

LengthInit ==
    /\ repo \in {r \in Repos : r.quotation_item = {} /\ r.customer = <<>>}
    /\ MODEL_PATH = None
    /\ files = [p \in Paths |-> NoFile]
    /\ model_cache = NoModel
    /\ HF_TOKEN = FALSE
    /\ PIPELINE = NoPipeline
    /\ LAST_ERR = None
    /\ last = [op |-> "start"]
    /\ pc = [t \in Callers |-> "idle"]
    /\ loc = [t \in Callers |-> [op |-> None]]

\* _summarize reaches line 124 with the source text of generate_quote_summary
SummarizeLengthsCall ==
    \E inp \in LengthInputs, hf_model \in HfModels, max_len \in MaxLens, min_len \in MinLens :
        LET src == BuildSourceText(inp.customer_name, inp.product_list, inp.total_amount)
            res == SummarizeLengths(src, hf_model, max_len, min_len)
        IN  /\ last' = [op |-> "_dynamic_lengths", arg |-> inp, hf_model |-> hf_model,
                        max_len |-> max_len, min_len |-> min_len,
                        source_words |-> WordCount(src),
                        dyn_min |-> res.dyn_min, dyn_max |-> res.dyn_max]
            /\ UNCHANGED <<repo, MODEL_PATH, files, model_cache, HF_TOKEN, PIPELINE, LAST_ERR,
                           pc, loc>>

LengthNext ==
    \/ SummarizeLengthsCall

LengthSpec == LengthInit /\ [][LengthNext]_vars

(* C18: for every input text and every configured (MAX_LEN, MIN_LEN),       *)
(* _dynamic_lengths returns min < max with max = min(configured max,        *)
(* max(48, 0.8 * words)) and min = min(configured min, max(24, 0.4 *       *)
(* words)), replaced by max(16, max - 8) when it would be >= max, where     *)
(* words is the word count of the source description.                       *)
C18_DynamicLengths ==
    (last.op = "_dynamic_lengths") =>
        LET wc == Max(1, last.source_words)
            dyn_max == Min(last.max_len, Max(48, (4 * wc) \div 5))
            dyn_min == Min(last.min_len, Max(24, (2 * wc) \div 5))
        IN  /\ last.dyn_min < last.dyn_max
            /\ last.dyn_max = dyn_max
            /\ last.dyn_min = (IF dyn_min >= dyn_max THEN Max(16, dyn_max - 8) ELSE dyn_min)

\* the same, with the configuration at its defaults: only the word count matters
C18_DefaultConfiguration ==
    (last.op = "_dynamic_lengths" /\ last.max_len = DefaultMaxLen /\ last.min_len = DefaultMinLen)
    => C18_DynamicLengths

\* ------------------------------------------------------------ the core as a whole
(* One process that serves all three components: the operations of the     *)
(* request path in any order, over a repository seeded with customers and  *)
(* line items, with or without an artifact persisted by an earlier process.*)
Init ==
    /\ repo \in {r \in Repos : Len(r.customer) = 3 /\ Cardinality(r.quotation_item) = 3}
    /\ MODEL_PATH = None
    /\ files \in {[p \in Paths |-> NoFile]} \cup {[[p \in Paths |-> NoFile] EXCEPT ![LocalPath] = a] : a \in PriorArtifacts}
    /\ model_cache = NoModel
    /\ HF_TOKEN = TRUE
    /\ PIPELINE = NoPipeline
    /\ LAST_ERR = None
    /\ last = [op |-> "start"]
    /\ pc = [t \in Callers |-> "idle"]
    /\ loc = [t \in Callers |-> [op |-> None]]

Next ==
    \/ PredictQuoteTotal
    \/ ComputeCustomerSegments
    \/ GenerateQuoteSummary

Spec == Init /\ [][Next]_vars

(* C16: no operation of the core writes to the repository;                 *)
(* compute_customer_segments and generate_quote_summary leave the          *)
(* repository and every persisted file unchanged; predict_quote_total      *)
(* leaves the repository unchanged and changes a file only when its cache  *)
(* is empty and neither the configured nor the local path exists, and then *)
(* it is the local artifact, written by the training run of that call.     *)
C16_Step ==
    /\ repo' = repo
    /\ (IsSegments(last') \/ last'.op = "generate_quote_summary") => files' = files
    /\ (IsPredict(last') /\ files' # files) =>
           /\ model_cache = NoModel
           /\ ~(MODEL_PATH # None /\ Exists(files, MODEL_PATH))
           /\ ~Exists(files, LocalPath)
           /\ files' = [files EXCEPT ![LocalPath] = files'[LocalPath]]
           /\ files'[LocalPath].kind = "model"
           /\ HasEvent(last'.events, "train")

C16_CoreWritesOnlyArtifact == [][C16_Step]_vars

\* a prediction has just trained and written the local artifact, in a process
\* that has already segmented or summarised
C16_Witness ==
    /\ IsPredict(last) /\ HasEvent(last.events, "train")
    /\ files[LocalPath].kind = "model"
    /\ PIPELINE # NoPipeline

\* ------------------------------------------------------------ claims about the narrative generator
IsSummary(l) == l.op = "generate_quote_summary"

(* C3: generate_quote_summary never raises and returns a non-empty string  *)
(* for every well-formed input and every outcome of the learned path.      *)
C3_NeverRaisesNonEmpty ==
    (IsSummary(last) /\ WellFormed(last.arg)) => (~last.raised /\ Len(last.value) > 0)

AcmeExample == SummaryInput(TxtAcme, <<WindowA2>>, Num(50000))

(* C4 as stated: with the learned path unavailable, the Acme example       *)
(* returns a string containing "Acme", "2 item type(s)", "Window A" and    *)
(* "$500.00".                                                              *)
C4_AcmeExampleAsStated ==
    (IsSummary(last) /\ last.arg = AcmeExample /\ PIPELINE = NoPipeline) =>
        /\ Contains(last.value, TxtAcme)
        /\ Contains(last.value, Txt2ItemTypes)
        /\ Contains(last.value, TxtWindowA)
        /\ Contains(last.value, TxtD50000)

(* C4 amended: with the learned path unavailable, the Acme example returns  *)
(* a string containing "Acme", "1 item type(s)", "Window A" and "$500.00"  *)
(* and not "2 item type(s)"; in general the count printed before           *)
(* " item type(s) (" is the number of entries of the item list, whatever    *)
(* their quantities and names.                                             *)
C4_FallbackCountsEntries ==
    (IsSummary(last) /\ WellFormed(last.arg) /\ PIPELINE = NoPipeline) =>
        /\ last.path = "fallback"
        /\ Contains(last.value,
                    TxtCovers \o DigitsOf(Len(last.arg.product_list)) \o TxtItemTypes)
        /\ last.arg = AcmeExample =>
              /\ Contains(last.value, TxtAcme)
              /\ Contains(last.value, Txt1ItemTypes)
              /\ ~Contains(last.value, Txt2ItemTypes)
              /\ Contains(last.value, TxtWindowA)
              /\ Contains(last.value, TxtD50000)

\* the Acme example, answered by the fallback after a failed acquisition
C4_Witness ==
    /\ IsSummary(last) /\ last.arg = AcmeExample
    /\ PIPELINE = NoPipeline /\ last.path = "fallback"
    /\ last.events = <<"anon", "token">>

(* C8: once the anonymous and the credential attempt have both failed, no  *)
(* later generate_quote_summary call makes another acquisition attempt; it *)
(* goes directly to the fallback.                                          *)
C8_Step ==
    (/\ IsSummary(last) /\ last.events = <<"anon", "token">> /\ PIPELINE = NoPipeline
     /\ IsSummary(last') /\ WellFormed(last'.arg))
    => (last'.events = <<>> /\ last'.path = "fallback")

C8_StickyFailure == [][C8_Step]_vars

\* the acquisition attempts among the events of a call
IsAttempt(e) == e \in {"anon", "token"}

(* C17: acquisition tries the anonymous access first and the credential     *)
(* second, stopping at the first success: the credential attempt is made   *)
(* exactly when the anonymous attempt failed and a credential is           *)
(* configured; the capability is cached exactly when the last attempt      *)
(* succeeded; and a call made with the capability cached makes no attempt  *)
(* and keeps it.                                                           *)
C17_Step ==
    (IsSummary(last') /\ WellFormed(last'.arg))
    => LET attempts == SelectSeq(last'.events, IsAttempt)
       IN  IF PIPELINE # NoPipeline
           THEN attempts = <<>> /\ PIPELINE' = PIPELINE
           ELSE /\ attempts \in {<<"anon">>, <<"anon", "token">>}
                /\ last'.events[1] = "anon"
                /\ (attempts = <<"anon", "token">>) <=> (~last'.outcomes[1] /\ HF_TOKEN)
                /\ (PIPELINE' # NoPipeline) <=> last'.outcomes[Len(attempts)]

IsFallback(l) == l.op = "generate_quote_summary" /\ l.path = "fallback"

HasName(p) == "name" \in DOMAIN p /\ p.name # <<>>

\* the names of a sequence of names, each once, in the order of first occurrence
FirstNames(ns) ==
    LET F == {i \in 1..Len(ns) : \A j \in 1..(i - 1) : ns[j] # ns[i]}
    IN  [k \in 1..Cardinality(F) |-> ns[CHOOSE i \in F : Cardinality({j \in F : j < i}) = k - 1]]

\* what the summary shows for the names ns: the first six, "..." when there are more
Shown(ns) ==
    IF ns = <<>> THEN TxtSpecified
    ELSE Join(TxtCommaSpace, SubSeq(ns, 1, Min(6, Len(ns))))
         \o (IF Len(ns) > 6 THEN TxtEllipsis ELSE <<>>)

\* the names of the items that carry one
CarriedNames(product_list) ==
    LET named == SelectSeq(product_list, HasName)
    IN  [i \in 1..Len(named) |-> named[i].name]

\* the name every item contributes: its own, or "product" when it carries none
ContributedNames(product_list) ==
    [i \in 1..Len(product_list) |->
        IF HasName(product_list[i]) THEN product_list[i].name ELSE TxtProduct]

\* where the parenthesised list of a fallback summary starts and ends
ListFrom(l) ==
    Len(TxtThisQuotation \o l.arg.customer_name \o TxtCovers
        \o DigitsOf(Len(l.arg.product_list)) \o TxtItemTypes) + 1
ListTo(l) ==
    Len(l.value) - Len(TxtWithTotal \o FormatMoney(l.arg.total_amount.num) \o TxtTail)

\* the list sits between " item type(s) (" and ") with a total value of $"
Framed(l) ==
    /\ SubSeq(l.value, ListFrom(l) - Len(TxtItemTypes), ListFrom(l) - 1) = TxtItemTypes
    /\ SubSeq(l.value, ListTo(l) + 1, ListTo(l) + Len(TxtWithTotal)) = TxtWithTotal

Listed(l) == SubSeq(l.value, ListFrom(l), ListTo(l))

EndsWithEllipsis(t) ==
    Len(t) >= Len(TxtEllipsis) /\ SubSeq(t, Len(t) - Len(TxtEllipsis) + 1, Len(t)) = TxtEllipsis

(* C19 as stated, with "the item list yields no names" read as "no item    *)
(* carries a name": the fallback summary lists the distinct names the      *)
(* items carry, in first-occurrence order, at most six, "..." exactly when *)
(* more than six exist, and "the specified products" exactly when no item  *)
(* carries a name.                                                         *)
C19_NamesCarriedAsStated ==
    IsFallback(last) =>
        LET ns == FirstNames(CarriedNames(last.arg.product_list))
        IN  /\ Framed(last)
            /\ Listed(last) = Shown(ns)
            /\ Listed(last) = TxtSpecified <=> ns = <<>>

(* C19, amended: an item without a name contributes the name "product".    *)
(* The fallback summary lists the contributed names in first-occurrence    *)
(* order without duplicates, shows at most the first six, appends "..."    *)
(* exactly when more than six distinct names exist, and uses "the          *)
(* specified products" exactly when the item list is empty; two fallback   *)
(* calls with equal arguments return equal strings whatever the state of   *)
(* the pipeline cache.                                                     *)
C19_Step ==
    /\ IsFallback(last') =>
          LET ns == FirstNames(ContributedNames(last'.arg.product_list))
          IN  /\ Framed(last')
              /\ Listed(last') = Shown(ns)
              /\ EndsWithEllipsis(Listed(last')) <=> Len(ns) > 6
              /\ Listed(last') = TxtSpecified <=> last'.arg.product_list = <<>>
    /\ (IsFallback(last) /\ IsFallback(last') /\ last.arg = last'.arg)
          => last'.value = last.value

C19_FallbackNames == [][C19_Step]_vars

(* a fallback summary, produced after the pipeline was acquired, of a list *)
(* with a repeated name and more than six distinct names                   *)
C19_Witness ==
    /\ IsFallback(last)
    /\ PIPELINE # NoPipeline
    /\ LET ns == FirstNames(ContributedNames(last.arg.product_list))
       IN  Len(ns) > 6 /\ Len(ns) < Len(last.arg.product_list)

\* ------------------------------------------------------------ C20
\* the responses that show or regenerate the quotation the request names
Served(l) ==
    \/ l.op = "quotation_detail" /\ l.status = "quotation_detail.html"
    \/ l.op = "api_generate_summary" /\ l.status \in {"200", "500"}

\* the responses of a protected handler's own body
Reached(l) ==
    /\ l.op \in {"quotation_detail", "api_generate_summary"}
    /\ l.status # "redirect login"

\* the session was set by a login of an existing user
IssuedByLogin(session) ==
    /\ DOMAIN session = {"user_id", "role", "username"}
    /\ \E u \in Users : u.id = session.user_id /\ u.role = session.role

(* C20: a session whose role is not 'manager' is never served             *)
(* quotation_detail or api_generate_summary for a quotation whose user_id  *)
(* differs from the session's user_id; a request whose session holds no    *)
(* login reaches no protected handler; and a request api_generate_summary  *)
(* does not serve leaves every quotation's ai_summary unchanged.           *)
C20_Step ==
    LET session == loc[last'.client]
    IN  /\ Served(last') =>
              \/ session.role = "manager"
              \/ repo.quotation[last'.id].user_id = session.user_id
        /\ Reached(last') => IssuedByLogin(session)
        /\ (last'.op = "api_generate_summary" /\ last'.status # "200") =>
              \A id \in DOMAIN repo.quotation :
                  repo'.quotation[id].ai_summary = repo.quotation[id].ai_summary

C20_OwnQuotationsOnly == [][C20_Step]_vars

(* a sales session was refused the regeneration of another user's          *)
(* quotation after the owner had regenerated it                            *)
C20_Witness ==
    /\ last.op = "api_generate_summary"
    /\ last.status = "403"
    /\ loc[last.client].role = "sales"
    /\ repo.quotation[last.id].user_id # loc[last.client].user_id
    /\ repo.quotation[last.id].ai_summary # Quotations[last.id].ai_summary


====
